---------------------------- MODULE Spec2Model ----------------------------
(***************************************************************************)
(* house-of-cards (hoc): a tree diagram drawn with box characters is       *)
(* parsed into a forest of TreeNode objects and then materialized as       *)
(* directories and empty files beneath a base path.                        *)
(*                                                                         *)
(* Texts are sequences of one-character strings.  The box-drawing glyphs   *)
(* of the diagram are written in ASCII here:                               *)
(*      VBAR  "|"  stands for U+2502  (vertical continuation)              *)
(*      TEE   "+"  stands for U+251C  (branch connector)                   *)
(*      ELBOW "L"  stands for U+2514  (last-branch connector)              *)
(*      DASH  "-"  stands for U+2500  (horizontal dash)                    *)
(* Entry names are written with lower-case letters, "/" and blanks.        *)
(*                                                                         *)
(* dircreator, the earlier command of the repository, has a parser of its  *)
(* own; it is modelled by the actions of SpecDc.                           *)
(***************************************************************************)
EXTENDS Integers, Sequences, FiniteSets, TLC

VARIABLES
    entry,            \* "main": the hoc command; "api": parse_tree_structure called directly
    tree_str,         \* the input text (clipboard or file contents)
    dir_permissions,  \* -dp: a mode in 0..511, or None
    file_permissions, \* -fp: a mode in 0..511, or None
    privileged,       \* whether the process bypasses permission checks (uid 0)
    fs,               \* the filesystem: resolved path -> [kind, mode, len]
    fs0,              \* the filesystem when the current run started
    run,              \* number of the current run of the command (1, 2, ...)
    pc,               \* position in main / parse_tree_structure
    lines,            \* parse_tree_structure: lines (after tab replacement)
    idx,              \* parse_tree_structure: index of the next line of the for loop
    nodes,            \* every TreeNode constructed so far, in construction order
    node_stack,       \* parse_tree_structure: node_stack (indexes into nodes)
    roots,            \* parse_tree_structure: roots (indexes into nodes)
    todo,             \* create_structure_from_tree: nodes still to visit, in order
    ops,              \* filesystem calls issued so far, in order
    chmodFailed,      \* paths whose chmod raised OSError (reported by set_permissions)
    faults,           \* environment faults injected so far
    error,            \* the error reported: [kind, line], or NoError
    exit_code,        \* exit status of main, or None while running
    path_stack,       \* dircreator parse_tree_structure: path_stack (names)
    tree              \* dircreator parse_tree_structure: tree, as the list of its items

vars == <<entry, tree_str, dir_permissions, file_permissions, privileged, fs, fs0,
          run, pc, lines, idx, nodes, node_stack, roots, todo, ops,
          chmodFailed, faults, error, exit_code, path_stack, tree>>

\* Python's None, where the other values are numbers (a mode, an exit status)
None == -1

\* no error reported yet
NoError == [kind |-> "none", line |-> <<>>]

-----------------------------------------------------------------------------
(* Characters *)

SP == " "
TAB == "\t"
NL == "\n"
VBAR == "|"
TEE == "+"
ELBOW == "L"
DASH == "-"
SLASH == "/"

\* str.isspace() for the characters of the model
IsSpace(c) == c \in {SP, TAB, NL}

\* whether every character of s is whitespace (s.strip() is empty)
IsBlank(s) == \A i \in 1..Len(s) : IsSpace(s[i])

\* str.strip(): s without its leading and trailing whitespace
Strip(s) ==
    IF IsBlank(s) THEN <<>>
    ELSE LET first == CHOOSE i \in 1..Len(s) :
                          /\ ~IsSpace(s[i])
                          /\ \A j \in 1..(i - 1) : IsSpace(s[j])
             last == CHOOSE i \in 1..Len(s) :
                          /\ ~IsSpace(s[i])
                          /\ \A j \in (i + 1)..Len(s) : IsSpace(s[j])
         IN  SubSeq(s, first, last)

\* str.split("\n"): the pieces between line feeds (always at least one piece)
RECURSIVE SplitLines(_)
SplitLines(s) ==
    IF \A i \in 1..Len(s) : s[i] # NL THEN <<s>>
    ELSE LET k == CHOOSE i \in 1..Len(s) :
                      s[i] = NL /\ \A j \in 1..(i - 1) : s[j] # NL
         IN  <<SubSeq(s, 1, k - 1)>> \o SplitLines(SubSeq(s, k + 1, Len(s)))

\* line.replace("\t", "    ")
RECURSIVE ReplaceTabs(_)
ReplaceTabs(s) ==
    IF s = <<>> THEN <<>>
    ELSE (IF Head(s) = TAB THEN <<SP, SP, SP, SP>> ELSE <<Head(s)>>)
         \o ReplaceTabs(Tail(s))

\* whether t is a prefix of s
StartsWith(s, t) == Len(s) >= Len(t) /\ SubSeq(s, 1, Len(t)) = t

\* s from position i (1-based) to its end
From(s, i) == SubSeq(s, i, Len(s))

-----------------------------------------------------------------------------
\* The line pattern of parse_tree_structure is, in this order:
\*   indent:    any number of units, each four blanks or VBAR and three blanks
\*   connector: optionally TEE or ELBOW, then DASH DASH and a blank
\*   name:      one or more characters to the end of the line

IndentWidth == 4

\* one repetition of the indent group: four blanks, or VBAR and three blanks
IsUnit(u) == u = <<SP, SP, SP, SP>> \/ u = <<VBAR, SP, SP, SP>>

\* whether the first k indentation units of s all match the indent group
UnitsMatch(s, k) ==
    /\ Len(s) >= IndentWidth * k
    /\ \A i \in 0..(k - 1) :
           IsUnit(SubSeq(s, IndentWidth * i + 1, IndentWidth * i + IndentWidth))

\* whether s starts with the connector group: [TE] DASH DASH blank
HasConnector(s) ==
    /\ Len(s) >= 4
    /\ s[1] \in {TEE, ELBOW}
    /\ s[2] = DASH /\ s[3] = DASH /\ s[4] = SP

\* the name group ".+": at least one character, none of them a line feed
IsName(s) == Len(s) >= 1 /\ \A i \in 1..Len(s) : s[i] # NL

\* whether the pattern matches with exactly k indentation units
MatchesWith(s, k) ==
    /\ UnitsMatch(s, k)
    /\ LET rest == From(s, IndentWidth * k + 1)
       IN  \/ HasConnector(rest) /\ IsName(From(rest, 5))
           \/ IsName(rest)

NoMatch == [matched |-> FALSE]

\* pattern.match(line): the greedy match, i.e. the largest number of units
\* for which the rest of the pattern matches, the connector taken if it can be
Match(s) ==
    LET ks == {k \in 0..(Len(s) \div IndentWidth) : MatchesWith(s, k)}
    IN  IF ks = {} THEN NoMatch
        ELSE LET k == CHOOSE x \in ks : \A y \in ks : y <= x
                 rest == From(s, IndentWidth * k + 1)
                 conn == HasConnector(rest) /\ IsName(From(rest, 5))
             IN  [matched |-> TRUE,
                  indent |-> k,
                  connector |-> conn,
                  name |-> IF conn THEN From(rest, 5) ELSE rest]

\* depth = len(indent) // 4 + (1 if connector else 0)
DepthOf(m) == m.indent + (IF m.connector THEN 1 ELSE 0)

\* name.endswith("/")
EndsWithSlash(name) == Len(name) >= 1 /\ name[Len(name)] = SLASH


-----------------------------------------------------------------------------
(* Paths (posixpath) *)

\* os.path.join(a, b)
Join(a, b) ==
    IF StartsWith(b, <<SLASH>>) THEN b
    ELSE IF a = <<>> \/ EndsWithSlash(a) THEN a \o b
    ELSE a \o <<SLASH>> \o b

\* s without its trailing slashes (head.rstrip("/"))
RECURSIVE RStripSlash(_)
RStripSlash(s) ==
    IF EndsWithSlash(s) THEN RStripSlash(SubSeq(s, 1, Len(s) - 1)) ELSE s

\* os.path.dirname(p)
Dirname(p) ==
    LET slashes == {i \in 1..Len(p) : p[i] = SLASH}
        i == IF slashes = {} THEN 0
             ELSE CHOOSE x \in slashes : \A y \in slashes : y <= x
        head == SubSeq(p, 1, i)
    IN  IF RStripSlash(head) = <<>> THEN head ELSE RStripSlash(head)

\* The components of an absolute path, as the kernel resolves it: the pieces
\* between slashes, empty pieces dropped.  (No name of the model holds a "."
\* or ".." component.)
RECURSIVE Resolve(_)
Resolve(p) ==
    IF p = <<>> THEN <<>>
    ELSE IF Head(p) = SLASH THEN Resolve(Tail(p))
    ELSE LET stops == {i \in 1..Len(p) : p[i] = SLASH}
             k == IF stops = {} THEN Len(p) + 1
                  ELSE CHOOSE x \in stops : \A y \in stops : x <= y
         IN  <<SubSeq(p, 1, k - 1)>> \o Resolve(From(p, k))

\* the PATH argument of main, and the directory that holds it
path == <<SLASH, "w", SLASH, "t">>

\* whether resolved path a is b or lies beneath b
Beneath(a, b) == Len(a) >= Len(b) /\ SubSeq(a, 1, Len(b)) = b

-----------------------------------------------------------------------------
(* The filesystem: a function from resolved paths to entries               *)

Oct(u, g, o) == 64 * u + 8 * g + o

\* modes of new entries under the usual umask 022
DefaultDirMode == Oct(7, 5, 5)
DefaultFileMode == Oct(6, 4, 4)

OwnerW(mode) == (mode \div 128) % 2 = 1
OwnerX(mode) == (mode \div 64) % 2 = 1

Parent(p) == SubSeq(p, 1, Len(p) - 1)

\* os.path.isdir
IsDir(f, p) == p \in DOMAIN f /\ f[p].kind = "dir"

\* whether the process may add an entry to directory d
CanCreateIn(f, d) ==
    IsDir(f, d) /\ (privileged \/ (OwnerW(f[d].mode) /\ OwnerX(f[d].mode)))

\* whether the process may open the existing file p for writing
CanWriteFile(f, p) == privileged \/ OwnerW(f[p].mode)

\* os.makedirs(p, exist_ok=True): the missing ancestors are made first, then
\* the directory itself; an existing directory is not an error.  What was made
\* before a failure stays.
RECURSIVE MakeDirs(_, _)
MakeDirs(f, p) ==
    LET pre == IF Len(p) >= 1 /\ Parent(p) \notin DOMAIN f
               THEN MakeDirs(f, Parent(p))
               ELSE [ok |-> TRUE, fs |-> f, made |-> <<>>]
        g == pre.fs
    IN  IF ~pre.ok THEN pre
        ELSE IF Len(p) >= 1 /\ p \notin DOMAIN g /\ CanCreateIn(g, Parent(p))
        THEN [ok |-> TRUE,
              fs |-> (p :> [kind |-> "dir", mode |-> DefaultDirMode, len |-> 0]) @@ g,
              made |-> Append(pre.made, p)]
        ELSE [ok |-> IsDir(g, p), fs |-> g, made |-> pre.made]

\* open(p, "w") and close: an existing file is truncated, a missing one is
\* created empty; a directory in its place, a missing parent or a refused
\* permission raises OSError
OpenW(f, p) ==
    IF p \in DOMAIN f
    THEN IF f[p].kind = "file" /\ CanWriteFile(f, p)
         THEN [ok |-> TRUE, fs |-> [f EXCEPT ![p].len = 0], made |-> <<>>]
         ELSE [ok |-> FALSE, fs |-> f, made |-> <<>>]
    ELSE IF Len(p) >= 1 /\ CanCreateIn(f, Parent(p))
         THEN [ok |-> TRUE,
               fs |-> (p :> [kind |-> "file", mode |-> DefaultFileMode, len |-> 0]) @@ f,
               made |-> <<p>>]
         ELSE [ok |-> FALSE, fs |-> f, made |-> <<>>]

\* os.chmod(p, mode) on an entry that exists
Chmod(f, p, mode) == [f EXCEPT ![p].mode = mode]


-----------------------------------------------------------------------------
(* TreeNode *)

\* add_child that leaves is_dir alone
AddChildKeepsKind(ns, p, c) ==
    [ns EXCEPT ![p].children = Append(@, c)]

\* add_child that forgets the children the node had
AddChildReplacing(ns, p, c) ==
    [ns EXCEPT ![p].children = <<c>>,
               ![p].is_dir = TRUE]

\* TreeNode.add_child: ns with node c appended to the children of node p
AddChild(ns, p, c) ==
    [ns EXCEPT ![p].children = Append(@, c),
               ![p].is_dir = TRUE]

\* TreeNode.__init__: ns with a new node added (parent 0 means no parent)
NewNode(ns, name, is_dir, parent) ==
    LET node == [name |-> name,
                 parent |-> parent,
                 children |-> <<>>,
                 is_dir |-> is_dir,
                 full_path |-> IF parent # 0
                               THEN Join(ns[parent].full_path, name)
                               ELSE name]
        ns2 == Append(ns, node)
    IN  IF parent # 0 THEN AddChild(ns2, parent, Len(ns2)) ELSE ns2

-----------------------------------------------------------------------------
(* Inputs *)

MaxLines == 4       \* lines of a text handed to parse_tree_structure directly
MaxTreeLines == 3   \* lines of a text handed to the command
MaxRuns == 2        \* runs of the command on the same input and base path
MaxFaults == 1      \* environment faults (a failing mkdir, open or chmod) per behaviour

Conn(g) == <<g, DASH, DASH, SP>>
Bar == <<VBAR, SP, SP, SP>>

\* lines of the texts handed to parse_tree_structure directly
ApiLines ==
    { <<"r", SLASH>>,                      \* r/
      <<TAB, "a">>,                        \* a, indented by a tab
      Conn(TEE) \o <<"a", SLASH>>,         \* T-- a/
      Bar \o Conn(ELBOW) \o <<"b">>,       \* |   L-- b
      Conn(ELBOW) \o <<"c">>,              \* L-- c
      <<SP>>,                              \* a blank line
      <<SP, SP, "a">>,                     \* a, indented by two columns
      <<TEE, DASH, SP, "a">> }             \* a broken connector

\* lines of the texts handed to the command
MainLines ==
    { <<"r", SLASH>>,                      \* r/
      <<"a">>,                             \* a
      Conn(TEE) \o <<"a">>,                \* T-- a
      Conn(TEE) \o <<"a", SLASH>>,         \* T-- a/
      Bar \o Conn(ELBOW) \o <<"b">>,       \* |   L-- b
      Conn(ELBOW) \o <<SLASH, "e">> }      \* L-- /e

\* the lines of ls joined by line feeds
RECURSIVE JoinLines(_)
JoinLines(ls) ==
    IF ls = <<>> THEN <<>>
    ELSE IF Len(ls) = 1 THEN ls[1]
    ELSE ls[1] \o <<NL>> \o JoinLines(Tail(ls))

Texts(lineSet, n) ==
    UNION { {JoinLines(ls) : ls \in [1..k -> lineSet]} : k \in 0..n }

\* validate_permissions accepts every mode from 000 to 777
DirModes == {None, Oct(7, 0, 0)}
FileModes == {None, Oct(6, 0, 0), Oct(4, 4, 4)}

\* the runs of the command: the base path (a directory, missing, or a file),
\* the two options and the user.  Every pair of modes is run by an
\* unprivileged user on an existing base directory; the other runs vary the
\* base path and the user.
Configs ==
    {[base |-> "dir", dp |-> d, fp |-> f, root |-> FALSE] : d \in DirModes, f \in FileModes}
    \cup {[base |-> "dir", dp |-> None, fp |-> None, root |-> TRUE]}
    \cup {[base |-> "absent", dp |-> d, fp |-> None, root |-> FALSE] : d \in DirModes}
    \cup {[base |-> "file", dp |-> None, fp |-> None, root |-> FALSE]}

\* the filesystem before the command runs: / (not writable by the user),
\* /w (the user's) and, in it, the base path as a directory, a file or nothing
InitialFs(baseKind) ==
    LET top == (<<>> :> [kind |-> "dir", mode |-> Oct(5, 5, 5), len |-> 0])
               @@ (<<<<"w">>>> :> [kind |-> "dir", mode |-> DefaultDirMode, len |-> 0])
    IN  CASE baseKind = "absent" -> top
          [] baseKind = "dir" ->
               (Resolve(path) :> [kind |-> "dir", mode |-> DefaultDirMode, len |-> 0]) @@ top
          [] baseKind = "file" ->
               (Resolve(path) :> [kind |-> "file", mode |-> DefaultFileMode, len |-> 1]) @@ top

Init ==
    /\ \/ /\ entry = "api"
          /\ tree_str \in Texts(ApiLines, MaxLines)
          /\ dir_permissions = None
          /\ file_permissions = None
          /\ privileged = FALSE
          /\ fs = InitialFs("dir")
          /\ pc = "parse"
       \/ /\ entry = "main"
          /\ tree_str \in Texts(MainLines, MaxTreeLines)
          /\ \E c \in Configs :
                 /\ dir_permissions = c.dp
                 /\ file_permissions = c.fp
                 /\ privileged = c.root
                 /\ fs = InitialFs(c.base)
          /\ pc = "start"
    /\ fs0 = fs
    /\ run = 1
    /\ lines = <<>>
    /\ idx = 1
    /\ nodes = <<>>
    /\ node_stack = <<>>
    /\ roots = <<>>
    /\ todo = <<>>
    /\ ops = <<>>
    /\ chmodFailed = {}
    /\ faults = 0
    /\ error = NoError
    /\ exit_code = None
    /\ path_stack = <<>>
    /\ tree = <<>>


-----------------------------------------------------------------------------
(* parse_tree_structure *)

\* Raise after which main ends with status 0
RaiseExitsZero(kind, line) ==
    /\ error' = [kind |-> kind, line |-> line]
    /\ pc' = IF entry = "main" THEN "exit" ELSE "raised"
    /\ exit_code' = IF entry = "main" THEN 0 ELSE None

\* an exception leaves parse_tree_structure (when called directly) or is
\* caught by main, which prints it and calls sys.exit(1)
Raise(kind, line) ==
    /\ error' = [kind |-> kind, line |-> line]
    /\ pc' = IF entry = "main" THEN "exit" ELSE "raised"
    /\ exit_code' = IF entry = "main" THEN 1 ELSE None

\* InputLines without the strip
InputLinesUnstripped(text) == SplitLines(text)

\* lines = tree_str.strip().split("\n")
InputLines(text) == SplitLines(Strip(text))

\* NoUsableLine that only looks for an empty list of lines
NoUsableLineEmptyList(ls) == ls = <<>>

\* not any(line.strip() for line in lines)
NoUsableLine(ls) == \A i \in 1..Len(ls) : IsBlank(ls[i])

\* TooDeep with the bound off by one: a line may skip one level
TooDeepOffByOne(depth, stack) == depth > Len(stack) + 1

\* the guard of the "Inconsistent indentation" error
TooDeep(depth, stack) == depth > Len(stack)

\* Truncate that keeps the whole stack: closed ancestors stay open
TruncateNothing(stack, depth) == stack

\* Truncate that cuts one place too late: node_stack[:depth + 1]
TruncateLate(stack, depth) ==
    SubSeq(stack, 1, IF depth + 1 < Len(stack) THEN depth + 1 ELSE Len(stack))

\* node_stack[:depth]: a slice ends at the end of the list at the latest
Truncate(stack, depth) ==
    SubSeq(stack, 1, IF depth < Len(stack) THEN depth ELSE Len(stack))

\* the head of parse_tree_structure, up to its for loop
ParseBegin ==
    /\ pc = "parse"
    /\ LET ls == InputLines(tree_str)
       IN  IF NoUsableLine(ls)
           THEN /\ Raise("empty", <<>>)
                /\ UNCHANGED <<lines, idx, node_stack, roots>>
           ELSE /\ lines' = [i \in 1..Len(ls) |-> ReplaceTabs(ls[i])]
                /\ idx' = 1
                /\ node_stack' = <<>>
                /\ roots' = <<>>
                /\ pc' = "loop"
                /\ UNCHANGED <<error, exit_code>>
    /\ UNCHANGED <<path_stack, tree>>
    /\ UNCHANGED <<entry, tree_str, dir_permissions, file_permissions, privileged,
                   fs, fs0, run, nodes, todo, ops, chmodFailed, faults>>

\* one iteration of the for loop of parse_tree_structure, as far as the
\* objects of the program go
ParseStep ==
    /\ pc = "loop"
    /\ idx <= Len(lines)
    /\ LET line == lines[idx]
           m == Match(line)
           depth == DepthOf(m)
           is_dir == EndsWithSlash(m.name)
           stack1 == Truncate(node_stack, depth)
           parent_node == stack1[Len(stack1)]
       IN  IF IsBlank(line)
           THEN /\ idx' = idx + 1
                /\ UNCHANGED <<pc, nodes, node_stack, roots, error, exit_code>>
           ELSE IF ~m.matched
           THEN /\ Raise("format", line)
                /\ UNCHANGED <<idx, nodes, node_stack, roots>>
           ELSE IF depth = 0
           THEN /\ nodes' = NewNode(nodes, m.name, is_dir, 0)
                /\ roots' = Append(roots, Len(nodes'))
                /\ node_stack' = <<Len(nodes')>>
                /\ idx' = idx + 1
                /\ UNCHANGED <<pc, error, exit_code>>
           ELSE IF TooDeep(depth, node_stack)
           THEN /\ Raise("indent", line)
                /\ UNCHANGED <<idx, nodes, node_stack, roots>>
           ELSE IF stack1 = <<>>
           THEN \* node_stack[-1] of an empty list: IndexError
                /\ Raise("index", line)
                /\ UNCHANGED <<idx, nodes, node_stack, roots>>
           ELSE /\ nodes' = NewNode(nodes, m.name, is_dir, parent_node)
                /\ node_stack' = Append(stack1, Len(nodes'))
                /\ idx' = idx + 1
                /\ UNCHANGED <<pc, roots, error, exit_code>>
    /\ UNCHANGED <<path_stack, tree>>
    /\ UNCHANGED <<entry, tree_str, dir_permissions, file_permissions, privileged,
                   fs0, run, lines, todo, chmodFailed, faults>>

\* ParseLine that makes each entry on disk as soon as its line is read
ParseLineEager ==
    /\ ParseStep
    /\ fs' = IF Len(nodes') > Len(nodes)
             THEN MakeDirs(fs, Resolve(Join(path, nodes'[Len(nodes')].full_path))).fs
             ELSE fs
    /\ UNCHANGED ops

\* parsing is in memory: the filesystem is not touched
ParseLine ==
    /\ ParseStep
    /\ UNCHANGED <<fs, ops>>

\* the for loop is over: parse_tree_structure returns roots, and main hands
\* them to create_structure_from_tree
ParseReturn ==
    /\ pc = "loop"
    /\ idx > Len(lines)
    /\ pc' = IF entry = "main" THEN "create" ELSE "returned"
    /\ todo' = IF entry = "main" THEN roots ELSE <<>>
    /\ UNCHANGED <<path_stack, tree>>
    /\ UNCHANGED <<entry, tree_str, dir_permissions, file_permissions, privileged,
                   fs, fs0, run, lines, idx, nodes, node_stack, roots, ops,
                   chmodFailed, faults, error, exit_code>>

-----------------------------------------------------------------------------
(* main, up to the call of parse_tree_structure *)

MkdirOps(made, n) == [i \in 1..Len(made) |-> [op |-> "mkdir", path |-> made[i], node |-> n]]

\* the base path is created when it does not exist; it must be a directory.
\* io: the environment fails the mkdir (no space, read-only filesystem, ...)
CheckBase(io) ==
    /\ pc = "start"
    /\ LET base == Resolve(path)
           r == IF io THEN [ok |-> FALSE, fs |-> fs, made |-> <<>>] ELSE MakeDirs(fs, base)
       IN  IF base \notin DOMAIN fs
           THEN /\ io => faults < MaxFaults
                /\ faults' = faults + (IF io THEN 1 ELSE 0)
                /\ fs' = r.fs
                /\ ops' = ops \o MkdirOps(r.made, 0)
                /\ IF r.ok
                   THEN pc' = "read" /\ UNCHANGED <<error, exit_code>>
                   ELSE Raise("base_create", path)
           ELSE /\ ~io
                /\ UNCHANGED <<fs, ops, faults>>
                /\ IF IsDir(fs, base)
                   THEN pc' = "read" /\ UNCHANGED <<error, exit_code>>
                   ELSE Raise("not_dir", path)
    /\ UNCHANGED <<path_stack, tree>>
    /\ UNCHANGED <<entry, tree_str, dir_permissions, file_permissions, privileged,
                   fs0, run, lines, idx, nodes, node_stack, roots, todo,
                   chmodFailed>>

\* the input is read from the file or the clipboard; an empty one is an error
ReadInput ==
    /\ pc = "read"
    /\ IF IsBlank(tree_str)
       THEN Raise("read", <<>>)
       ELSE pc' = "parse" /\ UNCHANGED <<error, exit_code>>
    /\ UNCHANGED <<path_stack, tree>>
    /\ UNCHANGED <<entry, tree_str, dir_permissions, file_permissions, privileged,
                   fs, fs0, run, lines, idx, nodes, node_stack, roots, todo,
                   ops, chmodFailed, faults>>

-----------------------------------------------------------------------------
(* create_structure_from_tree / create_node_structure *)

\* the test of create_node_structure: node.is_dir or node.children
IsDirectoryNode(node) == node.is_dir \/ node.children # <<>>

\* the path create_node_structure works on
TargetPath(node) == Join(path, node.full_path)

\* the directory branch: os.makedirs(full_path, exist_ok=True)
CreateDir(f, full_path, n) ==
    LET r == MakeDirs(f, Resolve(full_path))
    IN  [ok |-> r.ok, fs |-> r.fs, ops |-> MkdirOps(r.made, n)]

\* the file branch: os.makedirs(dirname(full_path), exist_ok=True), then
\* open(full_path, "w")
CreateFile(f, full_path, n) ==
    LET r1 == MakeDirs(f, Resolve(Dirname(full_path)))
        p == Resolve(full_path)
        r2 == OpenW(r1.fs, p)
    IN  IF ~r1.ok THEN [ok |-> FALSE, fs |-> r1.fs, ops |-> MkdirOps(r1.made, n)]
        ELSE [ok |-> r2.ok,
              fs |-> r2.fs,
              ops |-> MkdirOps(r1.made, n) \o
                      (IF ~r2.ok THEN <<>>
                       ELSE <<[op |-> IF p \in DOMAIN r1.fs THEN "truncate" ELSE "create",
                               path |-> p, node |-> n]>>)]

\* ModeFor with the two options swapped
ModeForSwapped(isdir) == IF isdir THEN file_permissions ELSE dir_permissions

\* the mode set_permissions is called with for a node, or None for no call
ModeFor(isdir) == IF isdir THEN dir_permissions ELSE file_permissions

\* set_permissions that lets the OSError of os.chmod through
ChmodErrorRaised(ch) == ch

\* whether a failure of os.chmod leaves set_permissions as an exception: it
\* is caught there and printed for the path
ChmodRaises(ch) == FALSE

\* CreationFailed that sees no failure: create_node_structure goes on
CreationFailureIgnored(made) == FALSE

\* whether os.makedirs or open raised: nothing in create_node_structure or
\* create_structure_from_tree catches it
CreationFailed(made) == ~made.ok

\* Pending that puts a node's children after everything that was pending
PendingChildrenLast(children, rest) == rest \o children

\* what is left to do once a node's own entry is made: the recursive calls
\* for its children, in the order of node.children, and then whatever the
\* callers' loops still hold
Pending(children, rest) == children \o rest

\* one call of create_node_structure, without the calls for the children.
\* io: the environment fails the creation; ch: os.chmod raises OSError
CreateNode(io, ch) ==
    /\ pc = "create"
    /\ todo # <<>>
    /\ LET n == Head(todo)
           node == nodes[n]
           full_path == TargetPath(node)
           p == Resolve(full_path)
           isdir == IsDirectoryNode(node)
           made == IF io THEN [ok |-> FALSE, fs |-> fs, ops |-> <<>>]
                   ELSE IF isdir THEN CreateDir(fs, full_path, n)
                   ELSE CreateFile(fs, full_path, n)
           perm == ModeFor(isdir)
       IN  /\ (io \/ ch) => faults < MaxFaults
           /\ ch => (~io /\ made.ok /\ perm # None)
           /\ faults' = faults + (IF io \/ ch THEN 1 ELSE 0)
           /\ IF CreationFailed(made) \/ ChmodRaises(ch)
              THEN /\ fs' = made.fs
                   /\ ops' = ops \o made.ops
                   /\ Raise("os", node.full_path)
                   /\ chmodFailed' = IF ch THEN chmodFailed \cup {p} ELSE chmodFailed
                   /\ UNCHANGED todo
              ELSE /\ IF perm = None
                      THEN /\ fs' = made.fs
                           /\ ops' = ops \o made.ops
                           /\ UNCHANGED chmodFailed
                      ELSE IF ch
                      THEN /\ fs' = made.fs
                           /\ ops' = ops \o made.ops
                           /\ chmodFailed' = chmodFailed \cup {p}
                      ELSE /\ fs' = Chmod(made.fs, p, perm)
                           /\ ops' = ops \o made.ops \o
                                     <<[op |-> "chmod", path |-> p, node |-> n]>>
                           /\ UNCHANGED chmodFailed
                   /\ todo' = Pending(IF isdir THEN node.children ELSE <<>>, Tail(todo))
                   /\ UNCHANGED <<pc, error, exit_code>>
    /\ UNCHANGED <<path_stack, tree>>
    /\ UNCHANGED <<entry, tree_str, dir_permissions, file_permissions, privileged,
                   fs0, run, lines, idx, nodes, node_stack, roots>>

\* every root is done: main prints "Directory structure created" and ends
Finish ==
    /\ pc = "create"
    /\ todo = <<>>
    /\ pc' = "exit"
    /\ exit_code' = 0
    /\ UNCHANGED <<path_stack, tree>>
    /\ UNCHANGED <<entry, tree_str, dir_permissions, file_permissions, privileged,
                   fs, fs0, run, lines, idx, nodes, node_stack, roots, todo,
                   ops, chmodFailed, faults, error>>

\* the command is run again on the same input and base path
Restart ==
    /\ pc = "exit"
    /\ exit_code = 0
    /\ run < MaxRuns
    /\ run' = run + 1
    /\ fs0' = fs
    /\ pc' = "start"
    /\ lines' = <<>>
    /\ idx' = 1
    /\ nodes' = <<>>
    /\ node_stack' = <<>>
    /\ roots' = <<>>
    /\ todo' = <<>>
    /\ ops' = <<>>
    /\ chmodFailed' = {}
    /\ exit_code' = None
    /\ UNCHANGED <<path_stack, tree>>
    /\ UNCHANGED <<entry, tree_str, dir_permissions, file_permissions, privileged,
                   fs, faults, error>>

Next ==
    \/ \E io \in BOOLEAN : CheckBase(io)
    \/ ReadInput
    \/ ParseBegin
    \/ ParseLine
    \/ ParseReturn
    \/ \E io \in BOOLEAN, ch \in BOOLEAN : CreateNode(io, ch)
    \/ Finish
    \/ Restart

Spec == Init /\ [][Next]_vars


-----------------------------------------------------------------------------
(* dircreator: parse_tree_structure *)

\* the lines of the texts handed to dircreator's parser
DcLines ==
    { <<"r", SLASH>>,                      \* r/
      <<"x">>,                             \* x: no connector
      Conn(TEE) \o <<"a", SLASH>>,         \* T-- a/
      Bar \o Conn(ELBOW) \o <<"b">>,       \* |   L-- b
      Conn(ELBOW) \o <<"c">> }             \* L-- c

\* re.match of dircreator's pattern: indentation units, then the connector,
\* which is not optional here, then the name
DcMatch(s) ==
    LET ks == {k \in 0..(Len(s) \div IndentWidth) :
                   /\ UnitsMatch(s, k)
                   /\ HasConnector(From(s, IndentWidth * k + 1))
                   /\ IsName(From(s, IndentWidth * k + 5))}
    IN  IF ks = {} THEN NoMatch
        ELSE LET k == CHOOSE x \in ks : \A y \in ks : y <= x
             IN  [matched |-> TRUE,
                  indent |-> k,
                  name |-> Strip(From(s, IndentWidth * k + 5))]

\* depth = len(indent) // 4 + 1
DcDepth(m) == m.indent + 1

\* while len(path_stack) > depth: path_stack.pop()
DcPop(stack, depth) ==
    IF Len(stack) > depth THEN SubSeq(stack, 1, depth) ELSE stack

\* os.path.join(*path_stack)
RECURSIVE JoinAll(_)
JoinAll(stack) ==
    IF stack = <<>> THEN <<>>
    ELSE IF Len(stack) = 1 THEN stack[1]
    ELSE Join(JoinAll(SubSeq(stack, 1, Len(stack) - 1)), stack[Len(stack)])

\* tree[key] = {"type": type}: a key the dict has keeps its place
DcPut(t, key, type) ==
    IF \E i \in 1..Len(t) : t[i].path = key
    THEN [i \in 1..Len(t) |-> IF t[i].path = key THEN [t[i] EXCEPT !.type = type] ELSE t[i]]
    ELSE Append(t, [path |-> key, type |-> type])

InitDc ==
    /\ entry = "dircreator"
    /\ tree_str \in Texts(DcLines, MaxLines)
    /\ dir_permissions = None
    /\ file_permissions = None
    /\ privileged = FALSE
    /\ fs = InitialFs("dir")
    /\ fs0 = fs
    /\ run = 1
    /\ pc = "parse"
    /\ lines = <<>>
    /\ idx = 1
    /\ nodes = <<>>
    /\ node_stack = <<>>
    /\ roots = <<>>
    /\ todo = <<>>
    /\ ops = <<>>
    /\ chmodFailed = {}
    /\ faults = 0
    /\ error = NoError
    /\ exit_code = None
    /\ path_stack = <<>>
    /\ tree = <<>>

\* the head of dircreator's parse_tree_structure, up to its for loop
DcParseBegin ==
    /\ entry = "dircreator"
    /\ pc = "parse"
    /\ lines' = SplitLines(Strip(tree_str))
    /\ idx' = 1
    /\ path_stack' = <<>>
    /\ tree' = <<>>
    /\ pc' = "loop"
    /\ UNCHANGED <<entry, tree_str, dir_permissions, file_permissions, privileged,
                   fs, fs0, run, nodes, node_stack, roots, todo, ops,
                   chmodFailed, faults, error, exit_code>>

\* one iteration of the for loop (idx counts from 1 here, from 0 in the code)
DcParseLine ==
    /\ entry = "dircreator"
    /\ pc = "loop"
    /\ idx <= Len(lines)
    /\ LET line == lines[idx]
           m == DcMatch(line)
           stripped == Strip(line)
           base_name == IF EndsWithSlash(stripped) THEN stripped
                        ELSE stripped \o <<SLASH>>
       IN  IF IsBlank(line)
           THEN UNCHANGED <<path_stack, tree>>
           ELSE IF idx = 1
           THEN /\ path_stack' = <<base_name>>
                /\ tree' = DcPut(tree, base_name, "dir")
           ELSE IF ~m.matched
           THEN UNCHANGED <<path_stack, tree>>
           ELSE /\ path_stack' = Append(DcPop(path_stack, DcDepth(m)), m.name)
                /\ tree' = DcPut(tree, JoinAll(path_stack'),
                                 IF EndsWithSlash(m.name) THEN "dir" ELSE "file")
    /\ idx' = idx + 1
    /\ UNCHANGED <<entry, tree_str, dir_permissions, file_permissions, privileged,
                   fs, fs0, run, pc, lines, nodes, node_stack, roots, todo, ops,
                   chmodFailed, faults, error, exit_code>>

\* the for loop is over: return tree
DcParseReturn ==
    /\ entry = "dircreator"
    /\ pc = "loop"
    /\ idx > Len(lines)
    /\ pc' = "returned"
    /\ UNCHANGED <<entry, tree_str, dir_permissions, file_permissions, privileged,
                   fs, fs0, run, lines, idx, nodes, node_stack, roots, todo, ops,
                   chmodFailed, faults, error, exit_code, path_stack, tree>>

NextDc ==
    \/ DcParseBegin
    \/ DcParseLine
    \/ DcParseReturn

SpecDc == InitDc /\ [][NextDc]_vars


-----------------------------------------------------------------------------
(* Properties of parse_tree_structure *)

\* the kinds of error parse_tree_structure raises
ParseErrors == {"empty", "format", "indent"}

\* the indexes of the lines the for loop does not skip, in order
NonBlankIdx == SelectSeq([i \in 1..Len(lines) |-> i], LAMBDA i : ~IsBlank(lines[i]))

\* q lists the numbers of S in increasing order
Ascending(q, S) ==
    /\ Len(q) = Cardinality(S)
    /\ \A i \in 1..Len(q) : q[i] \in S
    /\ \A i, j \in 1..Len(q) : i < j => q[i] < q[j]

HasMarker(node) == EndsWithSlash(node.name)
HasChildren(node) == node.children # <<>>

\* C1: a line whose resolved depth exceeds the number of open ancestors (the
\* length of node_stack), the first line included, makes the step fail with
\* the "Inconsistent indentation" error naming that line: no node is made for
\* it, no root is added and parsing is over.
C1_TooDeepRaises ==
    [][ ( /\ pc = "loop"
          /\ idx <= Len(lines)
          /\ ~IsBlank(lines[idx])
          /\ Match(lines[idx]).matched
          /\ DepthOf(Match(lines[idx])) > Len(node_stack) )
        => ( /\ error' = [kind |-> "indent", line |-> lines[idx]]
             /\ pc' = (IF entry = "main" THEN "exit" ELSE "raised")
             /\ entry = "main" => exit_code' = 1
             /\ nodes' = nodes
             /\ roots' = roots ) ]_vars

\* the first line of a text is too deep (it carries a connector)
C1_Witness ==
    /\ pc = "raised"
    /\ error.kind = "indent"
    /\ idx = 1
    /\ error.line = lines[1]
    /\ nodes = <<>>

\* C2: the nodes made so far are the lines read so far; a line of depth 0 is
\* a root and roots lists the roots in order of appearance; a line of depth
\* d > 0 is a child of the node of the nearest preceding line of depth d-1;
\* children lists a node's children in order of appearance.
C2_TreeShape ==
    LET at == NonBlankIdx
        n == Len(nodes)
        \* the matches and the depths of the lines read, as sequences
        ms == [k \in 1..(IF n <= Len(at) THEN n ELSE 0) |-> Match(lines[at[k]])] \o <<>>
        ds == [k \in DOMAIN ms |-> DepthOf(ms[k])] \o <<>>
    IN  /\ n <= Len(at)
        /\ pc \in {"returned", "create"} => n = Len(at)
        /\ Ascending(roots, {k \in 1..n : ds[k] = 0})
        /\ \A k \in 1..n :
               LET above == {j \in 1..(k - 1) : ds[j] = ds[k] - 1}
               IN  /\ nodes[k].name = ms[k].name
                   /\ ds[k] = 0 => nodes[k].parent = 0
                   /\ ds[k] > 0 => /\ above # {}
                                   /\ nodes[k].parent \in above
                                   /\ \A j \in above : j <= nodes[k].parent
                   /\ Ascending(nodes[k].children,
                                {i \in 1..n : nodes[i].parent = k})

\* the example: r/ with children a/ and c, a/ with child b
C2_Witness ==
    /\ pc = "returned"
    /\ tree_str = JoinLines(<< <<"r", SLASH>>,
                               Conn(TEE) \o <<"a", SLASH>>,
                               Bar \o Conn(ELBOW) \o <<"b">>,
                               Conn(ELBOW) \o <<"c">> >>)
    /\ roots = <<1>>
    /\ nodes[1].name = <<"r", SLASH>> /\ nodes[1].children = <<2, 4>>
    /\ nodes[2].name = <<"a", SLASH>> /\ nodes[2].children = <<3>>
    /\ nodes[3].name = <<"b">> /\ nodes[3].children = <<>>
    /\ nodes[4].name = <<"c">> /\ nodes[4].children = <<>>

\* C3 as stated: the first processed line is always a root of depth 0, so the
\* first line never fails and the first node is the first root.
C3_FirstLineAlwaysRoot ==
    /\ (pc \in {"raised", "exit"} /\ error.kind \in {"format", "indent"}) => idx > 1
    /\ idx > 1 => (nodes # <<>> /\ roots # <<>> /\ roots[1] = 1)

\* C3 as amended: the text is stripped before it is split, so the first
\* processed line starts with no whitespace and whitespace before it adds
\* nothing to its depth; its indentation can only be continuation glyphs.
\* When its resolved depth is 0 it becomes the first root; when it is not (a
\* connector or a continuation glyph leads it) parsing fails on it with the
\* "Inconsistent indentation" error.
C3_FirstLine ==
    (pc \in {"loop", "returned", "create", "raised", "exit"} /\ lines # <<>>)
    => /\ lines[1] # <<>>
       /\ ~IsSpace(lines[1][1])
       /\ lines[1] = ReplaceTabs(SplitLines(Strip(tree_str))[1])
       /\ LET m == Match(lines[1])
          IN  /\ m.matched
              /\ m.indent > 0 => lines[1][1] = VBAR
              /\ (DepthOf(m) = 0 /\ idx > 1)
                    => /\ nodes # <<>> /\ roots # <<>> /\ roots[1] = 1
                       /\ nodes[1].parent = 0
                       /\ nodes[1].name = m.name
              /\ DepthOf(m) = 0 => ~(idx = 1 /\ pc \in {"raised", "exit"})
              /\ DepthOf(m) > 0 => /\ idx = 1
                                   /\ nodes = <<>>
                                   /\ pc # "loop" => (/\ pc \in {"raised", "exit"}
                                                      /\ error.kind = "indent"
                                                      /\ error.line = lines[1])

\* a text that starts with whitespace: its first line is the first root
C3_Witness ==
    /\ pc = "loop"
    /\ IsSpace(tree_str[1])
    /\ idx = 2
    /\ roots = <<1>>
    /\ nodes[1].name = <<"a">>

\* C4: an empty or whitespace-only text is never parsed: parse_tree_structure
\* raises "The input tree structure is empty" and makes no node and no root.
C4_EmptyInputRaises ==
    IsBlank(tree_str)
    => /\ pc \notin {"loop", "returned", "create"}
       /\ nodes = <<>> /\ roots = <<>>
       /\ (entry = "api" /\ pc # "parse") => (pc = "raised" /\ error.kind = "empty")

\* a whitespace-only text has been refused
C4_Witness ==
    /\ entry = "api"
    /\ tree_str # <<>>
    /\ IsBlank(tree_str)
    /\ pc = "raised"
    /\ error.kind = "empty"


\* the number of parent links from node n up to its root
RECURSIVE TreeDepth(_)
TreeDepth(n) == IF nodes[n].parent = 0 THEN 0 ELSE 1 + TreeDepth(nodes[n].parent)

\* C13: once a line has been made a node, node_stack is the chain of open
\* ancestors of the last node made: its length is that line's resolved depth
\* plus one, its top is that node, its bottom is a root, and each element is
\* a child of the element below it; and every node lies as deep in the tree
\* as the depth resolved for its line.
C13_AncestorStack ==
    LET at == NonBlankIdx
        n == Len(nodes)
        ds == [k \in 1..(IF n <= Len(at) THEN n ELSE 0) |->
                  DepthOf(Match(lines[at[k]]))] \o <<>>
    IN  /\ n = 0 => node_stack = <<>>
        /\ n > 0 =>
               /\ Len(ds) = n
               /\ Len(node_stack) = ds[n] + 1
               /\ node_stack[Len(node_stack)] = n
               /\ nodes[node_stack[1]].parent = 0
               /\ \E r \in 1..Len(roots) : roots[r] = node_stack[1]
               /\ \A i \in 1..(Len(node_stack) - 1) :
                      /\ nodes[node_stack[i + 1]].parent = node_stack[i]
                      /\ \E c \in 1..Len(nodes[node_stack[i]].children) :
                             nodes[node_stack[i]].children[c] = node_stack[i + 1]
               /\ \A k \in 1..n : TreeDepth(k) = ds[k]

\* after r/, a/ beneath it and b beneath a/, the line of c at depth 1 has
\* closed a/ and b: the stack is r/, c
C13_Witness ==
    /\ entry = "api" /\ pc = "loop" /\ idx = 5
    /\ Len(nodes) = 4
    /\ node_stack = <<1, 4>>
    /\ TreeDepth(3) = 2 /\ TreeDepth(4) = 1
    /\ nodes[4].parent = 1 /\ nodes[3].parent = 2

\* a line of the grammar: indentation units, then the connector and a name
\* or a name alone, the name starting with neither a blank nor a drawing glyph
WellFormed(line) ==
    LET m == Match(line)
    IN  m.matched /\ m.name[1] \notin {SP, TAB, VBAR, TEE, ELBOW, DASH}

\* C16: a line that is not blank and not of the grammar (indented by a
\* number of columns that is no multiple of 4, or with a broken connector)
\* stops the parse: the loop never gets past it, and when the parse has
\* ended at it the error is "Invalid line format" naming that line.
C16_MalformedLineRaises ==
    \A k \in 1..Len(lines) :
        (~IsBlank(lines[k]) /\ ~WellFormed(lines[k])) =>
            /\ idx <= k
            /\ (pc \in {"raised", "exit"} /\ idx = k) =>
                   (error.kind = "format" /\ error.line = lines[k])

\* C17: a step of the loop over a line that is accepted makes exactly one
\* node, the last of nodes, without children; of the nodes there were, only
\* its parent changes, by getting it appended to children and is_dir set;
\* every other node is as it was. A step over a blank line or a line that is
\* refused, and every step after the parse, leaves all nodes as they were.
C17_ParseStepFrame ==
    [][ run' = run =>
          LET n == Len(nodes)
              accepted == /\ pc = "loop" /\ idx <= Len(lines)
                          /\ ~IsBlank(lines[idx]) /\ pc' = "loop"
          IN  IF accepted
              THEN /\ Len(nodes') = n + 1
                   /\ nodes'[n + 1].children = <<>>
                   /\ nodes'[n + 1].parent \in 0..n
                   /\ \A k \in 1..n :
                          IF k = nodes'[n + 1].parent
                          THEN /\ nodes'[k].name = nodes[k].name
                               /\ nodes'[k].parent = nodes[k].parent
                               /\ nodes'[k].full_path = nodes[k].full_path
                               /\ nodes'[k].children = Append(nodes[k].children, n + 1)
                               /\ nodes'[k].is_dir
                          ELSE nodes'[k] = nodes[k]
              ELSE nodes' = nodes
      ]_vars

\* r/ had the child a/ and got the second child c: a/ and its child b are
\* as they were
C17_Witness ==
    /\ entry = "api" /\ pc = "loop" /\ idx = 5
    /\ Len(nodes) = 4
    /\ nodes[4].parent = 1
    /\ nodes[1].children = <<2, 4>>
    /\ nodes[2].children = <<3>> /\ nodes[2].parent = 1
    /\ nodes[3].children = <<>> /\ nodes[3].parent = 2 /\ ~nodes[3].is_dir

-----------------------------------------------------------------------------
(* Properties of the materialization *)

\* where node n goes on disk
NodePath(n) == Resolve(TargetPath(nodes[n]))

NodePaths == {NodePath(n) : n \in 1..Len(nodes)}

\* the paths of the first k nodes
NodePaths1(k) == {NodePath(n) : n \in 1..k}

\* the kind of entry a node stands for, by its marker and its children
KindOfNode(node) == IF HasMarker(node) \/ HasChildren(node) THEN "dir" ELSE "file"

\* main got as far as create_structure_from_tree in this run
Parsed == error.kind \in {"none", "os"} /\ pc \in {"create", "exit"}

\* what this run has added beneath the base path
CreatedBeneathBase ==
    {p \in DOMAIN fs : /\ p \notin DOMAIN fs0
                       /\ Beneath(p, Resolve(path))
                       /\ p # Resolve(path)}

\* C5: is_dir is true exactly for the nodes that carry the marker or have a
\* child; a file is only ever created for a node with neither, the directory
\* made at a node's path is made for a node with one of them, and when
\* the run succeeds each node's path is a directory or a file accordingly.
C5_DirectoryPromotion ==
    /\ \A n \in 1..Len(nodes) :
           nodes[n].is_dir = (HasMarker(nodes[n]) \/ HasChildren(nodes[n]))
    /\ \A i \in 1..Len(ops) :
           ops[i].node # 0 =>
               LET n == ops[i].node
               IN  /\ ops[i].op \in {"create", "truncate"}
                         => (~HasMarker(nodes[n]) /\ ~HasChildren(nodes[n]))
                   /\ (ops[i].op = "mkdir" /\ ops[i].path = NodePath(n))
                         => (HasMarker(nodes[n]) \/ HasChildren(nodes[n]))
    /\ (pc = "exit" /\ exit_code = 0) =>
           \A n \in 1..Len(nodes) :
               /\ NodePath(n) \in DOMAIN fs
               /\ fs[NodePath(n)].kind = KindOfNode(nodes[n])

\* a node without the marker got a child and was made as a directory, and a
\* node without the marker and without children was made as a file
C5_Witness ==
    /\ pc = "exit" /\ exit_code = 0
    /\ \E n, k \in 1..Len(nodes) :
           /\ ~HasMarker(nodes[n]) /\ HasChildren(nodes[n])
           /\ nodes[n].is_dir
           /\ fs[NodePath(n)].kind = "dir"
           /\ ~HasMarker(nodes[k]) /\ ~HasChildren(nodes[k])
           /\ ~nodes[k].is_dir
           /\ fs[NodePath(k)].kind = "file"

\* C6 as stated: a run that ends with a parse error leaves the filesystem
\* exactly as it was when the run started.
C6_ParseErrorLeavesFsAsItWas ==
    (pc = "exit" /\ error.kind \in ParseErrors) => fs = fs0

\* C6 as amended: a run that ends with a parse error (or an empty input) has
\* made no entry of the tree: every entry that existed is as it was, and the
\* only entry the run can have added is the base path, which main creates as
\* an empty directory before it reads the input.
C6_ParseErrorMakesNoTree ==
    (pc = "exit" /\ error.kind \in ParseErrors \cup {"read"})
    => /\ \A p \in DOMAIN fs0 : p \in DOMAIN fs /\ fs[p] = fs0[p]
       /\ \A p \in DOMAIN fs : p \notin DOMAIN fs0 =>
              /\ p = Resolve(path)
              /\ fs[p] = [kind |-> "dir", mode |-> DefaultDirMode, len |-> 0]
       /\ Resolve(path) \in DOMAIN fs0 => fs = fs0
       /\ \A i \in 1..Len(ops) : ops[i].node = 0

\* a run ended with a parse error after main had created the base path
C6_Witness ==
    /\ pc = "exit"
    /\ error.kind = "indent"
    /\ nodes # <<>>
    /\ Resolve(path) \notin DOMAIN fs0
    /\ IsDir(fs, Resolve(path))

\* C7: for a text that parses (here: whose names are all relative, run for the
\* first time with no mode configured, the environment failing nothing),
\* materialization does not abort, and what it has added beneath the base
\* path is exactly the nodes' paths, directories for directory nodes and
\* empty files for the others.
C7_CreatedIsExactlyTheNodes ==
    ( /\ entry = "main" /\ run = 1 /\ faults = 0
      /\ dir_permissions = None /\ file_permissions = None
      /\ pc = "exit" /\ Parsed
      /\ \A n \in 1..Len(nodes) : nodes[n].name[1] # SLASH )
    => /\ exit_code = 0
       /\ CreatedBeneathBase = NodePaths
       /\ \A n \in 1..Len(nodes) :
              /\ NodePath(n) \in DOMAIN fs
              /\ fs[NodePath(n)].kind = KindOfNode(nodes[n])
              /\ fs[NodePath(n)].len = 0

\* C8: every directory and file that create_structure_from_tree makes,
\* truncates or chmods lies at or beneath the base path.
C8_WritesOnlyBeneathBase ==
    \A i \in 1..Len(ops) :
        ops[i].node # 0 => Beneath(ops[i].path, Resolve(path))

\* C9: a second run after a successful first one (the environment failing
\* nothing) ends without error and leaves the filesystem as the first run
\* left it.
C9_SecondRunChangesNothing ==
    (run = 2 /\ pc = "exit" /\ faults = 0) => (exit_code = 0 /\ fs = fs0)

\* C10 as stated: with both modes configured, once materialization has
\* completed every node's directory has the directory mode and every node's
\* file the file mode.
C10_EveryEntryHasItsMode ==
    (pc = "exit" /\ exit_code = 0 /\ dir_permissions # None /\ file_permissions # None)
    => \A n \in 1..Len(nodes) :
           fs[NodePath(n)].mode = IF KindOfNode(nodes[n]) = "dir"
                                  THEN dir_permissions ELSE file_permissions

\* C10 as amended: once materialization has completed, every node's entry
\* whose chmod did not fail has the mode configured for its kind (a failed
\* chmod is reported by set_permissions and leaves the entry's mode as it
\* was); for a kind with no mode configured no chmod is issued, and the
\* entries this run made of that kind keep the mode they were created with.
C10_ModesApplied ==
    /\ \A i \in 1..Len(ops) :
           ops[i].op = "chmod" =>
               /\ ops[i].node # 0
               /\ ops[i].path = NodePath(ops[i].node)
               /\ (IF KindOfNode(nodes[ops[i].node]) = "dir"
                   THEN dir_permissions ELSE file_permissions) # None
    /\ (pc = "exit" /\ exit_code = 0) =>
           \A n \in 1..Len(nodes) :
               LET p == NodePath(n)
                   isdir == KindOfNode(nodes[n]) = "dir"
                   mode == IF isdir THEN dir_permissions ELSE file_permissions
               IN  /\ (mode # None /\ p \notin chmodFailed) => fs[p].mode = mode
                   /\ (mode = None /\ p \notin DOMAIN fs0) =>
                          fs[p].mode = (IF isdir THEN DefaultDirMode ELSE DefaultFileMode)

\* both modes are configured, a directory and a file were made and have them
C10_Witness ==
    /\ pc = "exit" /\ exit_code = 0 /\ run = 1
    /\ dir_permissions # None /\ file_permissions # None
    /\ chmodFailed = {}
    /\ \E n, k \in 1..Len(nodes) :
           /\ fs[NodePath(n)].kind = "dir" /\ fs[NodePath(n)].mode = dir_permissions
           /\ fs[NodePath(k)].kind = "file" /\ fs[NodePath(k)].mode = file_permissions
           /\ dir_permissions # DefaultDirMode
           /\ file_permissions # DefaultFileMode

\* C11: a step of create_node_structure in which os.chmod fails reports the
\* path and goes on as a step without the failure does: the entry has been
\* created, no error is raised, the node's children and then the rest of the
\* pre-order are what is done next; and a run in which a chmod failed ends
\* either with status 0 and an entry for every node, or with the error of a
\* creation that failed.
C11_ChmodFailureGoesOn ==
    [][ /\ (pc = "create" /\ chmodFailed' \ chmodFailed # {}) =>
               LET n == Head(todo)
               IN  /\ chmodFailed' = chmodFailed \cup {NodePath(n)}
                   /\ NodePath(n) \in DOMAIN fs'
                   /\ fs'[NodePath(n)].kind = KindOfNode(nodes[n])
                   /\ pc' = "create"
                   /\ error' = error /\ exit_code' = exit_code
                   /\ todo' = nodes[n].children \o Tail(todo)
        /\ (pc = "create" /\ pc' = "exit" /\ chmodFailed # {}) =>
               \/ /\ exit_code' = 0
                  /\ \A n \in 1..Len(nodes) : NodePath(n) \in DOMAIN fs'
               \/ /\ exit_code' = 1 /\ error'.kind = "os"
                  /\ chmodFailed' = chmodFailed
      ]_vars

\* the chmod of the first of several nodes failed, every node was created
\* and the run ended with status 0
C11_Witness ==
    /\ pc = "exit" /\ exit_code = 0
    /\ Len(nodes) >= 3
    /\ chmodFailed = {NodePath(1)}
    /\ \A n \in 1..Len(nodes) : NodePath(n) \in DOMAIN fs
    /\ \E n \in 2..Len(nodes) : nodes[n].parent = 1
    /\ \E n \in 2..Len(nodes) : nodes[n].parent # 1

-----------------------------------------------------------------------------
(* Properties of main *)

\* the four things main needs for status 0, read off the state at exit
BaseIsDir == IsDir(fs, Resolve(path))
InputGiven == ~IsBlank(tree_str)
ParseDone == lines # <<>> /\ idx > Len(lines) /\ Len(nodes) = Len(NonBlankIdx)
CreationsDone ==
    /\ todo = <<>>
    /\ \A n \in 1..Len(nodes) :
           /\ NodePath(n) \in DOMAIN fs
           /\ fs[NodePath(n)].kind = KindOfNode(nodes[n])

\* C12: when main has ended its status is 0 or 1; it is 0 exactly when the
\* base path is a directory, the input is not empty, every line was parsed
\* and every node was created. A base path that exists and is no directory
\* ends the run with 1 before the input is read (nothing parsed, nothing
\* touched); an empty input, a parse error and a failed creation end it
\* with 1 as well.
C12_ExitStatus ==
    (entry = "main" /\ pc = "exit") =>
        LET base == Resolve(path)
        IN  /\ exit_code \in {0, 1}
            /\ exit_code = 0 <=> (BaseIsDir /\ InputGiven /\ ParseDone /\ CreationsDone)
            /\ exit_code = 0 <=> error = NoError
            /\ (base \in DOMAIN fs0 /\ ~IsDir(fs0, base)) =>
                   /\ exit_code = 1 /\ error.kind = "not_dir"
                   /\ lines = <<>> /\ nodes = <<>> /\ ops = <<>> /\ fs = fs0
            /\ error.kind = "not_dir" => (base \in DOMAIN fs0 /\ ~IsDir(fs0, base))
            /\ error.kind = "base_create" => (base \notin DOMAIN fs0 /\ ~BaseIsDir)
            /\ (BaseIsDir /\ ~InputGiven) => (exit_code = 1 /\ error.kind = "read")
            /\ (BaseIsDir /\ InputGiven /\ ~ParseDone) =>
                   (exit_code = 1 /\ error.kind \in ParseErrors \cup {"index"})
            /\ (BaseIsDir /\ InputGiven /\ ParseDone /\ ~CreationsDone) =>
                   (exit_code = 1 /\ error.kind = "os")

\* a run that had to make the base path, parsed a tree and created it
C12_Witness ==
    /\ entry = "main" /\ pc = "exit" /\ exit_code = 0 /\ run = 1
    /\ Resolve(path) \notin DOMAIN fs0
    /\ BaseIsDir /\ InputGiven /\ ParseDone /\ CreationsDone
    /\ Len(nodes) >= 2

\* C14: a run that ended with the failure of a node's creation has status 1;
\* the node that failed is the one create_node_structure was at, and neither
\* its entry nor any entry of a node after it in pre-order (the nodes are
\* numbered in pre-order) was created, truncated or chmod-ed; every node
\* before it has its entry, and everything made before the failure, like
\* everything that was there when the run started, is still on disk. The
\* other way round, a run that ended with status 0 has made every entry.
C14_CreationFailureIsFatal ==
    /\ (entry = "main" /\ pc = "exit" /\ exit_code = 0) => CreationsDone
    /\ (entry = "main" /\ pc = "exit" /\ error.kind = "os") =>
           /\ exit_code = 1
           /\ todo # <<>>
           /\ LET f == Head(todo)
              IN  /\ error.line = nodes[f].full_path
                  /\ \A i \in 1..Len(ops) :
                         /\ ops[i].node <= f
                         /\ ops[i].node = f =>
                                (ops[i].op = "mkdir" /\ ops[i].path # NodePath(f))
                  /\ \A k \in 1..(f - 1) :
                         /\ NodePath(k) \in DOMAIN fs
                         /\ fs[NodePath(k)].kind = KindOfNode(nodes[k])
                  /\ \A k \in (f + 1)..Len(nodes) :
                         (NodePath(k) \in DOMAIN fs /\ NodePath(k) \notin NodePaths1(f))
                             => (NodePath(k) \in DOMAIN fs0 /\ fs[NodePath(k)] = fs0[NodePath(k)])
           /\ \A i \in 1..Len(ops) :
                  /\ ops[i].path \in DOMAIN fs
                  /\ ops[i].op = "mkdir" => fs[ops[i].path].kind = "dir"
                  /\ ops[i].op \in {"create", "truncate"} => fs[ops[i].path].kind = "file"
           /\ \A q \in DOMAIN fs0 : q \in DOMAIN fs /\ fs[q].kind = fs0[q].kind

\* the creation of the second of three nodes failed after the first was
\* made: the first is on disk, the third is not
C14_Witness ==
    /\ entry = "main" /\ pc = "exit" /\ exit_code = 1 /\ error.kind = "os"
    /\ Len(nodes) = 3
    /\ todo # <<>> /\ Head(todo) = 2
    /\ NodePath(1) \in DOMAIN fs /\ NodePath(1) \notin DOMAIN fs0
    /\ NodePath(3) \notin DOMAIN fs

\* the nodes of the trees rooted at q, in pre-order
RECURSIVE PreOrder(_)
PreOrder(q) ==
    IF q = <<>> THEN <<>>
    ELSE <<Head(q)>> \o PreOrder(nodes[Head(q)].children) \o PreOrder(Tail(q))

\* whether node a is a proper ancestor of node d
RECURSIVE IsAncestor(_, _)
IsAncestor(a, d) ==
    nodes[d].parent # 0 /\ (nodes[d].parent = a \/ IsAncestor(a, nodes[d].parent))

\* C15: while create_structure_from_tree runs, the nodes already done and
\* the nodes still to do are the pre-order of the roots cut in two: every
\* filesystem call made so far is for a node already done, the calls come in
\* pre-order of their nodes, a directory's mkdir and chmod come before every
\* call for a descendant, a node's children are done in the order of its
\* children sequence, and whatever is created has its parent directory on
\* disk by then (it was there when the run started or an earlier call made it).
C15_PreOrder ==
    (entry = "main" /\ pc \in {"create", "exit"} /\ Parsed) =>
        LET order == PreOrder(roots)
            rest == PreOrder(todo)
            ndone == Len(order) - Len(rest)
            \* where each node stands in the pre-order, as a sequence
            pos == [n \in 1..Len(nodes) |->
                       CHOOSE k \in 1..Len(order) : order[k] = n] \o <<>>
            failed == pc = "exit" /\ exit_code # 0
        IN  /\ Len(order) = Len(nodes)
            /\ \A n \in 1..Len(nodes) : \E k \in 1..Len(order) : order[k] = n
            /\ ndone >= 0
            /\ rest = SubSeq(order, ndone + 1, Len(order))
            /\ \A k \in 1..ndone :
                   /\ NodePath(order[k]) \in DOMAIN fs
                   /\ fs[NodePath(order[k])].kind = KindOfNode(nodes[order[k]])
            /\ \A i \in 1..Len(ops) :
                   ops[i].node # 0 =>
                       pos[ops[i].node] <= ndone + (IF failed THEN 1 ELSE 0)
            /\ \A i, j \in 1..Len(ops) :
                   (i < j /\ ops[i].node # 0) =>
                       /\ ops[j].node # 0
                       /\ pos[ops[i].node] <= pos[ops[j].node]
                       /\ ~IsAncestor(ops[j].node, ops[i].node)
                       /\ ops[i].op = "chmod" => ops[i].node # ops[j].node
            /\ \A n \in 1..Len(nodes) :
                   \A a, b \in 1..Len(nodes[n].children) :
                       a < b => pos[nodes[n].children[a]] < pos[nodes[n].children[b]]
            /\ \A i \in 1..Len(ops) :
                   ops[i].op \in {"mkdir", "create"} =>
                       \/ IsDir(fs0, Parent(ops[i].path))
                       \/ \E j \in 1..(i - 1) :
                              ops[j].op = "mkdir" /\ ops[j].path = Parent(ops[i].path)

\* with a directory mode configured, a directory was made and chmod-ed, then
\* the directory beneath it was made and chmod-ed, then the file in that
C15_Witness ==
    /\ entry = "main" /\ pc = "exit" /\ exit_code = 0 /\ run = 1
    /\ dir_permissions # None
    /\ Len(nodes) = 3 /\ roots = <<1>>
    /\ nodes[1].children = <<2>> /\ nodes[2].children = <<3>>
    /\ PreOrder(roots) = <<1, 2, 3>>
    /\ Len(ops) = 5
    /\ ops[1].op = "mkdir" /\ ops[1].node = 1
    /\ ops[2].op = "chmod" /\ ops[2].node = 1
    /\ ops[3].op = "mkdir" /\ ops[3].node = 2
    /\ ops[4].op = "chmod" /\ ops[4].node = 2
    /\ ops[5].op = "create" /\ ops[5].node = 3

-----------------------------------------------------------------------------
(* Properties of dircreator's parse_tree_structure *)

\* C18: in dircreator, a step over a line (not the first) that matches the
\* pattern with a depth greater than the number of entries on path_stack
\* raises an error and records nothing in tree.
C18_TooDeepIsRejected ==
    [][ ( /\ entry = "dircreator" /\ pc = "loop"
          /\ idx > 1 /\ idx <= Len(lines)
          /\ DcMatch(lines[idx]).matched
          /\ DcDepth(DcMatch(lines[idx])) > Len(path_stack) )
        => (pc' = "raised" /\ error' # NoError /\ tree' = tree)
      ]_vars

=============================================================================
